---- MODULE Spec2Model ----
(***************************************************************************)
(* The slot calendar engine of booking_agent_v2                            *)
(* (src/app/calendar/slot_calendar.py): one SQLite table of bookings and   *)
(* the operations is_slot_available, book_slot, cancel_booking,            *)
(* slots_available_on_day and next_available_slot.                         *)
(*                                                                         *)
(* Python str values are sequences of character codes, so that SQLite's    *)
(* TEXT comparison (BINARY collation) and strptime/strftime are modelled   *)
(* by what they do.  A time of day is a number of minutes since 00:00, a   *)
(* date is its proleptic Gregorian ordinal, a datetime is a number of      *)
(* minutes since 0001-01-01 00:00 minus one day.                           *)
(***************************************************************************)
EXTENDS Integers, Sequences, FiniteSets, TLC

VARIABLES
    bookings,   \* the rows of table bookings
    sqlite_seq, \* sqlite_sequence.seq of table bookings (AUTOINCREMENT)
    result,     \* what the last call returned or raised, and the rows it found
    issued,     \* history: the booking ids book_slot has returned so far
    storage,    \* environment: whether each storage access of the last call
                \* answered (TRUE) or raised sqlite3.Error (FALSE)
    search,     \* the locals of a next_available_slot call inside its loop
    pending     \* per caller, the book_slot call that has passed its
                \* availability check and not yet inserted

vars == <<bookings, sqlite_seq, result, issued, storage, search, pending>>

----------------------------------------------------------------------------
(* Character codes and str helpers *)

Ch0 == 48
Colon == 58
Dash == 45

Ch(d) == Ch0 + d

IsDigit(c) == c \in Ch0..(Ch0 + 9)

AllDigits(s) == \A i \in 1..Len(s) : IsDigit(s[i])

RECURSIVE NumVal(_)
NumVal(s) ==
    IF Len(s) = 0 THEN 0
    ELSE 10 * NumVal(SubSeq(s, 1, Len(s) - 1)) + (s[Len(s)] - Ch0)

\* a str of n characters
StrOfLen(n) == [i \in 1..n |-> Ch0]

\* SQLite compares TEXT values bytewise (memcmp), a proper prefix being less
StrLess(a, b) ==
    \E i \in 1..(Len(b)) :
        /\ i <= Len(a) + 1
        /\ \A j \in 1..(i - 1) : a[j] = b[j]
        /\ (i = Len(a) + 1 \/ a[i] < b[i])

\* the positions of separator c in s
Positions(s, c) == {i \in 1..Len(s) : s[i] = c}

----------------------------------------------------------------------------
(* _validate_duration: a Python value is [type, val] *)

PyInt(n) == [type |-> "int", val |-> n]
PyFloat(n) == [type |-> "float", val |-> n]
PyStr(n) == [type |-> "str", val |-> n]

Granularity == 15

ValidDurationMut(duration) ==
    duration.type = "int" /\ duration.val % Granularity = 0

ValidDuration(duration) ==
    ~ (duration.type # "int" \/ duration.val <= 0 \/ duration.val % Granularity # 0)

----------------------------------------------------------------------------
(* _parse_time, _format_time: strptime/strftime with "%H:%M" *)

MinutesPerHour == 60
MinutesPerDay == 1440

\* %H is 2[0-3]|[0-1]\d|\d and %M is [0-5]\d|\d; the whole str must match
TimeParts(s) ==
    LET k == CHOOSE i \in Positions(s, Colon) : TRUE
    IN  <<SubSeq(s, 1, k - 1), SubSeq(s, k + 1, Len(s))>>

TimeParses(s) ==
    /\ Cardinality(Positions(s, Colon)) = 1
    /\ LET p == TimeParts(s)
       IN  /\ Len(p[1]) \in 1..2 /\ AllDigits(p[1]) /\ NumVal(p[1]) <= 23
           /\ Len(p[2]) \in 1..2 /\ AllDigits(p[2]) /\ NumVal(p[2]) <= 59

\* the time of day, in minutes, that _parse_time returns
ParseTime(s) == NumVal(TimeParts(s)[1]) * MinutesPerHour + NumVal(TimeParts(s)[2])

FormatTime(t) ==
    LET h == t \div MinutesPerHour
        m == t % MinutesPerHour
    IN  <<Ch(h \div 10), Ch(h % 10), Colon, Ch(m \div 10), Ch(m % 10)>>

----------------------------------------------------------------------------
(* _parse_date and date.strftime("%Y-%m-%d"), dates as ordinals *)

IsLeap(y) == y % 4 = 0 /\ (y % 100 # 0 \/ y % 400 = 0)

DaysInMonth(y, m) ==
    IF m = 2 THEN (IF IsLeap(y) THEN 29 ELSE 28)
    ELSE IF m \in {4, 6, 9, 11} THEN 30 ELSE 31

DaysBeforeYear(y) ==
    LET p == y - 1 IN p * 365 + (p \div 4) - (p \div 100) + (p \div 400)

DaysBeforeMonth(y, m) ==
    <<0, 31, 59, 90, 120, 151, 181, 212, 243, 273, 304, 334>>[m]
        + (IF m > 2 /\ IsLeap(y) THEN 1 ELSE 0)

Ordinal(y, m, d) == DaysBeforeYear(y) + DaysBeforeMonth(y, m) + d

\* %Y is \d\d\d\d, %m is 1[0-2]|0[1-9]|[1-9], %d is 3[01]|[12]\d|0[1-9]|[1-9]
DateParts(s) ==
    LET ps == Positions(s, Dash)
        k1 == CHOOSE i \in ps : \A j \in ps : i <= j
        k2 == CHOOSE i \in ps : \A j \in ps : j <= i
    IN  <<SubSeq(s, 1, k1 - 1), SubSeq(s, k1 + 1, k2 - 1), SubSeq(s, k2 + 1, Len(s))>>

DateParses(s) ==
    /\ Cardinality(Positions(s, Dash)) = 2
    /\ LET p == DateParts(s)
       IN  /\ Len(p[1]) = 4 /\ AllDigits(p[1]) /\ NumVal(p[1]) >= 1
           /\ Len(p[2]) \in 1..2 /\ AllDigits(p[2]) /\ NumVal(p[2]) \in 1..12
           /\ Len(p[3]) \in 1..2 /\ AllDigits(p[3])
           /\ NumVal(p[3]) \in 1..DaysInMonth(NumVal(p[1]), NumVal(p[2]))

\* the date, as an ordinal, that _parse_date returns
ParseDate(s) ==
    LET p == DateParts(s) IN Ordinal(NumVal(p[1]), NumVal(p[2]), NumVal(p[3]))

\* _combine_datetime and _calculate_end_datetime, datetimes in minutes
CombineDatetime(date_val, time_val) == date_val * MinutesPerDay + time_val

CalculateEndDatetime(start_dt, duration) == start_dt + duration

\* datetime.time() and datetime.date()
TimeOf(dt) == dt % MinutesPerDay

DateOf(dt) == dt \div MinutesPerDay

----------------------------------------------------------------------------
(* What a call gives back: the exception it raised ("none" when it        *)
(* returned) and the value it returned (None when it raised)               *)

\* A result names the operation it is of and, for a tool call, what the call
\* was given.  They are named here, before the outcome, so that two results
\* are compared by operation and arguments first: the values that different
\* operations return are of different kinds (a bool, an int, a str, a tuple)
\* and are compared only between results of the same operation.
OpOf(r) == r.op

ArgsOf(r) == r.args

None == "None"

Return(v) == [exc |-> "none", ret |-> v]

Raise(e) == [exc |-> e, ret |-> None]

----------------------------------------------------------------------------
(* Table bookings (setup_database): booking_id INTEGER PRIMARY KEY         *)
(* AUTOINCREMENT and six NOT NULL columns, no UNIQUE (date, start_time)    *)

Row(id, date, start_time, end_time, duration, customer_id, service_name) ==
    [booking_id |-> id, date |-> date, start_time |-> start_time,
     end_time |-> end_time, duration_minutes |-> duration,
     customer_id |-> customer_id, service_name |-> service_name]

MaxRowid(rows) ==
    IF rows = {} THEN 0
    ELSE CHOOSE n \in {r.booking_id : r \in rows} :
             \A r \in rows : r.booking_id <= n

\* a rowid chosen without AUTOINCREMENT: one more than the largest in the table
NextRowidMut(rows, seq) == MaxRowid(rows) + 1

\* AUTOINCREMENT: one more than the largest rowid the table ever held
NextRowid(rows, seq) ==
    (IF MaxRowid(rows) > seq THEN MaxRowid(rows) ELSE seq) + 1

----------------------------------------------------------------------------
(* is_slot_available *)

\* SELECT 1 FROM bookings WHERE date = ? AND end_time > ? AND start_time < ?
OverlapQuery(rows, date, time, end_str) ==
    {b \in rows : /\ b.date = date
                  /\ StrLess(time, b.end_time)
                  /\ StrLess(b.start_time, end_str)}

\* a storage error taken for "no overlap found"
UnavailableOnErrorMut == TRUE

\* except sqlite3.Error: return False
UnavailableOnError == FALSE

\* db_ok: whether the storage layer answers (FALSE: it raises sqlite3.Error)
is_slot_available(rows, date, time, duration, db_ok) ==
    IF ~ ValidDuration(duration) THEN Raise("InvalidDuration")
    ELSE IF ~ (DateParses(date) /\ TimeParses(time)) THEN Return(FALSE)
    ELSE IF ~ db_ok THEN Return(UnavailableOnError)
    ELSE LET req_start_dt == CombineDatetime(ParseDate(date), ParseTime(time))
             req_end_dt == CalculateEndDatetime(req_start_dt, duration.val)
             overlapping_booking ==
                 OverlapQuery(rows, date, time, FormatTime(TimeOf(req_end_dt)))
         IN  Return(overlapping_booking = {})

----------------------------------------------------------------------------
(* book_slot: the outcome and the table and sequence it leaves *)

MaxClientIdLen == 32
MaxServiceNameLen == 100

Effect(out, rows, seq) ==
    [exc |-> out.exc, ret |-> out.ret, rows |-> rows, seq |-> seq]

\* the checks book_slot starts with: the exception they raise, or "none"
BookSlotValidationMut(duration, client_id, service_name) ==
    IF ~ ValidDuration(duration) THEN "InvalidDuration"
    ELSE IF Len(client_id) > MaxClientIdLen THEN "ClientIdTooLong"
    ELSE "none"

BookSlotValidation(duration, client_id, service_name) ==
    IF ~ ValidDuration(duration) THEN "InvalidDuration"
    ELSE IF Len(client_id) > MaxClientIdLen THEN "ClientIdTooLong"
    ELSE IF Len(service_name) > MaxServiceNameLen THEN "ServiceNameTooLong"
    ELSE "none"

\* an INSERT that stores the start time as the end time
InsertBookingMut(rows, seq, date, start_time, duration, client_id, service_name) ==
    LET req_start_dt == CombineDatetime(ParseDate(date), ParseTime(start_time))
        end_time_str == FormatTime(TimeOf(req_start_dt))
        booking_id == NextRowid(rows, seq)
    IN  Effect(Return(booking_id),
               rows \cup {Row(booking_id, date, start_time, end_time_str,
                              duration.val, client_id, service_name)},
               booking_id)

\* lines 193-209: the end time, the INSERT on a connection of its own and
\* the id it gives, on the table as it is when the INSERT runs
InsertBooking(rows, seq, date, start_time, duration, client_id, service_name) ==
    LET req_start_dt == CombineDatetime(ParseDate(date), ParseTime(start_time))
        req_end_dt == CalculateEndDatetime(req_start_dt, duration.val)
        end_time_str == FormatTime(TimeOf(req_end_dt))
        booking_id == NextRowid(rows, seq)
    IN  Effect(Return(booking_id),
               rows \cup {Row(booking_id, date, start_time, end_time_str,
                              duration.val, client_id, service_name)},
               booking_id)

book_slot(rows, seq, date, start_time, duration, client_id, service_name, check_ok, insert_ok) ==
    IF BookSlotValidation(duration, client_id, service_name) # "none"
    THEN Effect(Raise(BookSlotValidation(duration, client_id, service_name)),
                rows, seq)
    ELSE IF ~ is_slot_available(rows, date, start_time, duration, check_ok).ret
         THEN Effect(Raise("SlotNotAvailable"), rows, seq)
    ELSE IF ~ insert_ok THEN Effect(Raise("sqlite3.Error"), rows, seq)
    ELSE InsertBooking(rows, seq, date, start_time, duration, client_id,
                       service_name)

----------------------------------------------------------------------------
(* cancel_booking *)

\* DELETE FROM bookings WHERE booking_id = ?
DeletedRowsMut(rows, booking_id) == {r \in rows : r.booking_id <= booking_id}

DeletedRows(rows, booking_id) == {r \in rows : r.booking_id = booking_id}

\* if cursor.rowcount > 0
RowcountPositiveMut(rowcount) == rowcount >= 0

RowcountPositive(rowcount) == rowcount > 0

\* a cancel_booking that reports a deletion whatever the DELETE found
cancel_bookingMut(rows, seq, booking_id, db_ok) ==
    IF booking_id.type # "int" \/ booking_id.val <= 0
    THEN Effect(Return(FALSE), rows, seq)
    ELSE IF ~ db_ok THEN Effect(Return(FALSE), rows, seq)
    ELSE LET deleted == DeletedRows(rows, booking_id.val)
         IN  Effect(Return(TRUE), rows \ deleted, seq)

cancel_booking(rows, seq, booking_id, db_ok) ==
    IF booking_id.type # "int" \/ booking_id.val <= 0
    THEN Effect(Return(FALSE), rows, seq)
    ELSE IF ~ db_ok THEN Effect(Return(FALSE), rows, seq)
    ELSE LET deleted == DeletedRows(rows, booking_id.val)
         IN  Effect(Return(RowcountPositive(Cardinality(deleted))),
                    rows \ deleted, seq)

----------------------------------------------------------------------------
(* date.strftime("%Y-%m-%d") *)

YearOf(ord) ==
    CHOOSE y \in (ord \div 366)..(ord \div 365 + 1) :
        DaysBeforeYear(y) < ord /\ ord <= DaysBeforeYear(y + 1)

MonthOf(ord) ==
    LET y == YearOf(ord)
        n == ord - DaysBeforeYear(y)
    IN  CHOOSE m \in 1..12 :
            DaysBeforeMonth(y, m) < n /\ n <= DaysBeforeMonth(y, m) + DaysInMonth(y, m)

DayOf(ord) ==
    ord - DaysBeforeYear(YearOf(ord)) - DaysBeforeMonth(YearOf(ord), MonthOf(ord))

FormatDate(ord) ==
    LET y == YearOf(ord)
        m == MonthOf(ord)
        d == DayOf(ord)
    IN  <<Ch(y \div 1000), Ch((y \div 100) % 10), Ch((y \div 10) % 10), Ch(y % 10),
          Dash, Ch(m \div 10), Ch(m % 10), Dash, Ch(d \div 10), Ch(d % 10)>>

----------------------------------------------------------------------------
(* slots_available_on_day *)

DayStart == 540

\* a working day that ends at 18:00
DayEndMut == 18 * 60

DayEnd == 1020

\* a day enumerated by the hour
DayStepMut == 2 * 30

DayStep == 30

\* the while loop, from current_check_time on
RECURSIVE SlotsFrom(_, _, _, _, _)
SlotsFrom(rows, date, duration, current_check_time, db_ok) ==
    IF ~ (current_check_time < DayEnd) THEN <<>>
    ELSE LET time_str == FormatTime(current_check_time)
             current_dt == CombineDatetime(ParseDate(date), current_check_time)
             next_dt == current_dt + DayStep
         IN  (IF is_slot_available(rows, date, time_str, duration, db_ok).ret
              THEN <<time_str>> ELSE <<>>)
             \o SlotsFrom(rows, date, duration, TimeOf(next_dt), db_ok)

slots_available_on_day(rows, date, duration, db_ok) ==
    IF ~ ValidDuration(duration) THEN Raise("InvalidDuration")
    ELSE IF ~ DateParses(date) THEN Return(<<>>)
    ELSE Return(SlotsFrom(rows, date, duration, DayStart, db_ok))

----------------------------------------------------------------------------
(* next_available_slot *)

SearchDays == 365

\* the None of Optional[Tuple[str, str]]: a tuple of no date and no time
NoSlot == <<>>

\* what one iteration of the while loop ends with: the return of a slot, or
\* the current_dt of the next iteration
Found(slot) == [returned |-> TRUE, ret |-> slot]

\* an iteration that leaves current_dt as it found it
ContinueMut(current_dt, next_dt) == [returned |-> FALSE, current_dt |-> current_dt]

Continue(current_dt, next_dt) == [returned |-> FALSE, current_dt |-> next_dt]

\* the body of the while loop
LoopBody(rows, duration, current_dt, db_ok) ==
    IF ~ (DayStart <= TimeOf(current_dt) /\ TimeOf(current_dt) < DayEnd)
    THEN IF TimeOf(current_dt) < DayStart
         THEN Continue(current_dt, CombineDatetime(DateOf(current_dt), DayStart))
         ELSE Continue(current_dt, CombineDatetime(DateOf(current_dt) + 1, DayStart))
    ELSE LET date_str == FormatDate(DateOf(current_dt))
             time_str == FormatTime(TimeOf(current_dt))
         IN  IF is_slot_available(rows, date_str, time_str, duration, db_ok).ret
             THEN Found(<<date_str, time_str>>)
             ELSE Continue(current_dt, current_dt + Granularity)

\* the while loop, from current_dt on
RECURSIVE SearchFrom(_, _, _, _, _)
SearchFrom(rows, duration, current_dt, search_limit_dt, db_ok) ==
    IF ~ (current_dt < search_limit_dt) THEN Return(NoSlot)
    ELSE LET body == LoopBody(rows, duration, current_dt, db_ok)
         IN  IF body.returned THEN Return(body.ret)
             ELSE SearchFrom(rows, duration, body.current_dt, search_limit_dt,
                             db_ok)

\* a search that starts at the instant it is given, aligned or not
MinuteOffsetMut(dt) == 0

\* minute_offset: what is missing to the next 15-minute mark, 0 when aligned
MinuteOffset(dt) ==
    LET offset == Granularity - ((dt % MinutesPerHour) % Granularity)
    IN  IF offset = Granularity THEN 0 ELSE offset

\* a search that never checks its first candidate
next_available_slotMut(rows, after_date_time, duration, db_ok) ==
    IF ~ ValidDuration(duration) THEN Raise("InvalidDuration")
    ELSE IF ~ (DateParses(after_date_time[1]) /\ TimeParses(after_date_time[2]))
    THEN Return(NoSlot)
    ELSE LET start_dt == CombineDatetime(ParseDate(after_date_time[1]),
                                         ParseTime(after_date_time[2]))
             current_dt == start_dt + MinuteOffset(start_dt)
             search_limit_dt == current_dt + SearchDays * MinutesPerDay
         IN  SearchFrom(rows, duration, current_dt + Granularity, search_limit_dt,
                        db_ok)

next_available_slot(rows, after_date_time, duration, db_ok) ==
    IF ~ ValidDuration(duration) THEN Raise("InvalidDuration")
    ELSE IF ~ (DateParses(after_date_time[1]) /\ TimeParses(after_date_time[2]))
    THEN Return(NoSlot)
    ELSE LET start_dt == CombineDatetime(ParseDate(after_date_time[1]),
                                         ParseTime(after_date_time[2]))
             current_dt == start_dt + MinuteOffset(start_dt)
             search_limit_dt == current_dt + SearchDays * MinutesPerDay
         IN  SearchFrom(rows, duration, current_dt, search_limit_dt, db_ok)

----------------------------------------------------------------------------
(* The arguments the calls are made with *)

MaxBookings == 2

\* "2025-04-01", "2025-04-02" and "2025-04-31" (no such day)
Date0401 == <<Ch(2), Ch(0), Ch(2), Ch(5), Dash, Ch(0), Ch(4), Dash, Ch(0), Ch(1)>>
Date0402 == <<Ch(2), Ch(0), Ch(2), Ch(5), Dash, Ch(0), Ch(4), Dash, Ch(0), Ch(2)>>
Date0431 == <<Ch(2), Ch(0), Ch(2), Ch(5), Dash, Ch(0), Ch(4), Dash, Ch(3), Ch(1)>>

\* "09:00", "09:30", "10:00", "23:30", "08:00", "10:05", "16:45", "17:00";
\* "9:00" and "10:0", which strptime parses as 09:00 and 10:00; "9:60", which
\* it rejects
Time0900 == FormatTime(540)
Time0930 == FormatTime(570)
Time1000 == FormatTime(600)
Time2330 == FormatTime(1410)
Time0800 == FormatTime(480)
Time1005 == FormatTime(605)
Time1645 == FormatTime(1005)
Time1700 == FormatTime(1020)
Time9_00 == <<Ch(9), Colon, Ch(0), Ch(0)>>
Time10_0 == <<Ch(1), Ch(0), Colon, Ch(0)>>
Time9_60 == <<Ch(9), Colon, Ch(6), Ch(0)>>

ValidDurations == {PyInt(30), PyInt(60)}

InvalidDurations == {PyInt(0), PyInt(-15), PyInt(10), PyFloat(30)}

ClientIds == {StrOfLen(MaxClientIdLen), StrOfLen(MaxClientIdLen + 1)}

ServiceNames == {StrOfLen(MaxServiceNameLen), StrOfLen(MaxServiceNameLen + 1)}

BookingIds == {PyInt(n) : n \in 0..(MaxBookings + 1)} \cup {PyStr(1)}

\* (date, time, duration) with a date and a time that parse and a valid
\* duration: around 09:00-10:30 of one day, the same hours written "9:00" and
\* "10:0", an interval that passes midnight, and one on the next day
ValidSlotArgs ==
    ({Date0401} \X {Time0900, Time0930, Time1000} \X ValidDurations)
        \cup {<<Date0401, Time9_00, PyInt(60)>>, <<Date0401, Time10_0, PyInt(30)>>,
              <<Date0401, Time2330, PyInt(60)>>, <<Date0402, Time1000, PyInt(60)>>}

\* (date, time, duration): those, a date and a time that do not parse, and
\* the invalid durations
SlotArgs ==
    ValidSlotArgs
        \cup {<<Date0431, Time0900, PyInt(30)>>, <<Date0401, Time9_60, PyInt(30)>>}
        \cup {<<Date0401, Time1000, d>> : d \in InvalidDurations}

\* (date, time, duration, client_id, service_name)
BookArgs ==
    {<<a[1], a[2], a[3], StrOfLen(MaxClientIdLen), StrOfLen(MaxServiceNameLen)>> :
        a \in SlotArgs}
        \cup {<<Date0401, Time0900, d, c, s>> :
                d \in {PyInt(30), PyInt(0)}, c \in ClientIds, s \in ServiceNames}

\* (date, duration)
DayArgs ==
    {<<Date0401, PyInt(30)>>, <<Date0402, PyInt(60)>>, <<Date0431, PyInt(30)>>,
     <<Date0401, PyInt(0)>>}

\* ((date, time), duration)
SearchArgs ==
    ({<<Date0401, Time0900>>, <<Date0401, Time2330>>, <<Date0401, Time9_60>>,
      <<Date0401, Time1005>>, <<Date0401, Time1645>>, <<Date0401, Time1700>>}
        \X {PyInt(30)})
        \cup ({<<Date0401, Time1000>>} \X {PyInt(60), PyInt(0)})
        \cup {<<<<Date0401, Time0800>>, PyInt(60)>>}

----------------------------------------------------------------------------
(* The calls.  result.before is the table as the call found it and       *)
(* result.booking_id the booking_id cancel_booking was called with.        *)

Result(op, out, before, booking_id) ==
    [op |-> op, exc |-> out.exc, ret |-> out.ret, before |-> before,
     booking_id |-> booking_id]

\* the callers that may be inside book_slot at the same time
Callers == {1, 2}

\* no call in progress
Idle == [pc |-> "idle"]

NoneInProgress == search = Idle /\ pending = [c \in Callers |-> Idle]

Init ==
    /\ bookings = {}
    /\ sqlite_seq = 0
    /\ issued = {}
    /\ result = Result("setup_database", Return(None), {}, None)
    /\ storage = <<TRUE>>
    /\ NoneInProgress

\* Each call as one step, with what the storage does during it: db_ok (for
\* book_slot check_ok, then insert_ok) tells whether the access answers.

\* a check that clears the day it looks at
IsSlotAvailableCallMut(date, time, duration, db_ok) ==
    /\ NoneInProgress
    /\ result' = Result("is_slot_available",
                        is_slot_available(bookings, date, time, duration, db_ok),
                        bookings, None)
    /\ storage' = <<db_ok>>
    /\ bookings' = {b \in bookings : b.date # date}
    /\ UNCHANGED <<sqlite_seq, issued, search, pending>>

IsSlotAvailableCall(date, time, duration, db_ok) ==
    /\ NoneInProgress
    /\ result' = Result("is_slot_available",
                        is_slot_available(bookings, date, time, duration, db_ok),
                        bookings, None)
    /\ storage' = <<db_ok>>
    /\ UNCHANGED <<bookings, sqlite_seq, issued, search, pending>>

BookSlotCall(date, start_time, duration, client_id, service_name, check_ok, insert_ok) ==
    /\ NoneInProgress
    /\ sqlite_seq < MaxBookings
    /\ LET e == book_slot(bookings, sqlite_seq, date, start_time, duration,
                          client_id, service_name, check_ok, insert_ok)
       IN  /\ bookings' = e.rows
           /\ sqlite_seq' = e.seq
           /\ result' = Result("book_slot", e, bookings, None)
           /\ issued' = IF e.exc = "none" THEN issued \cup {e.ret} ELSE issued
    /\ storage' = <<check_ok, insert_ok>>
    /\ UNCHANGED <<search, pending>>

CancelBookingCall(booking_id, db_ok) ==
    /\ NoneInProgress
    /\ LET e == cancel_booking(bookings, sqlite_seq, booking_id, db_ok)
       IN  /\ bookings' = e.rows
           /\ sqlite_seq' = e.seq
           /\ result' = Result("cancel_booking", e, bookings, booking_id)
    /\ storage' = <<db_ok>>
    /\ UNCHANGED <<issued, search, pending>>

SlotsAvailableOnDayCall(date, duration, db_ok) ==
    /\ NoneInProgress
    /\ result' = Result("slots_available_on_day",
                        slots_available_on_day(bookings, date, duration, db_ok),
                        bookings, None)
    /\ storage' = <<db_ok>>
    /\ UNCHANGED <<bookings, sqlite_seq, issued, search, pending>>

NextAvailableSlotCall(after_date_time, duration) ==
    /\ NoneInProgress
    /\ result' = Result("next_available_slot",
                        next_available_slot(bookings, after_date_time, duration, TRUE),
                        bookings, None)
    /\ storage' = <<TRUE>>
    /\ UNCHANGED <<bookings, sqlite_seq, issued, search, pending>>

\* Spec: the storage answers every access

IsSlotAvailableStep ==
    \E a \in SlotArgs : IsSlotAvailableCall(a[1], a[2], a[3], TRUE)

BookSlotStep ==
    \E a \in BookArgs : BookSlotCall(a[1], a[2], a[3], a[4], a[5], TRUE, TRUE)

CancelBookingStep ==
    \E booking_id \in BookingIds : CancelBookingCall(booking_id, TRUE)

SlotsAvailableOnDayStep ==
    \E a \in DayArgs : SlotsAvailableOnDayCall(a[1], a[2], TRUE)

NextAvailableSlotStep ==
    \E a \in SearchArgs : NextAvailableSlotCall(a[1], a[2])

Next ==
    \/ IsSlotAvailableStep
    \/ BookSlotStep
    \/ CancelBookingStep
    \/ SlotsAvailableOnDayStep
    \/ NextAvailableSlotStep

Spec == Init /\ [][Next]_vars

----------------------------------------------------------------------------
(* The calls with a storage that answers an access or raises sqlite3.Error *)
(* on it.  (What next_available_slot does of it is in SearchSpec.)         *)

FaultyIsSlotAvailableStep ==
    \E a \in SlotArgs, db_ok \in BOOLEAN :
        IsSlotAvailableCall(a[1], a[2], a[3], db_ok)

FaultyBookSlotStep ==
    \E a \in BookArgs, check_ok \in BOOLEAN, insert_ok \in BOOLEAN :
        BookSlotCall(a[1], a[2], a[3], a[4], a[5], check_ok, insert_ok)

FaultyCancelBookingStep ==
    \E booking_id \in BookingIds, db_ok \in BOOLEAN :
        CancelBookingCall(booking_id, db_ok)

FaultySlotsAvailableOnDayStep ==
    \E a \in DayArgs, db_ok \in BOOLEAN :
        SlotsAvailableOnDayCall(a[1], a[2], db_ok)

FaultNext ==
    \/ FaultyIsSlotAvailableStep
    \/ FaultyBookSlotStep
    \/ FaultyCancelBookingStep
    \/ FaultySlotsAvailableOnDayStep

FaultSpec == Init /\ [][FaultNext]_vars

----------------------------------------------------------------------------
(* book_slot called by several callers at once.  A call checks the         *)
(* availability on one connection and inserts on another (lines 189-209); *)
(* nothing is held in between, so the steps of two calls interleave.       *)

\* (date, start_time, duration, client_id, service_name): zero-padded times
\* of one day, none passing midnight; two of the slots overlap
RaceArgs ==
    {<<Date0401, t, d, StrOfLen(MaxClientIdLen), StrOfLen(MaxServiceNameLen)>> :
        t \in {Time0900, Time0930, Time1000}, d \in {PyInt(30), PyInt(60)}}

InsertsPending == Cardinality({c \in Callers : pending[c].pc = "insert"})

\* lines 180-191: the validation and the availability check
BookSlotCheck(c, date, start_time, duration, client_id, service_name) ==
    /\ search = Idle
    /\ pending[c] = Idle
    /\ sqlite_seq + InsertsPending < MaxBookings
    /\ IF BookSlotValidation(duration, client_id, service_name) # "none"
       THEN /\ result' = Result("book_slot",
                                Raise(BookSlotValidation(duration, client_id,
                                                         service_name)),
                                bookings, None)
            /\ UNCHANGED pending
       ELSE IF ~ is_slot_available(bookings, date, start_time, duration, TRUE).ret
       THEN /\ result' = Result("book_slot", Raise("SlotNotAvailable"),
                                bookings, None)
            /\ UNCHANGED pending
       ELSE /\ pending' = [pending EXCEPT ![c] =
                              [pc |-> "insert", date |-> date,
                               start_time |-> start_time, duration |-> duration,
                               client_id |-> client_id,
                               service_name |-> service_name]]
            /\ UNCHANGED result
    /\ storage' = <<TRUE>>
    /\ UNCHANGED <<bookings, sqlite_seq, issued, search>>

\* lines 193-209: the INSERT and the return of the booking id
BookSlotInsert(c) ==
    /\ pending[c].pc = "insert"
    /\ LET e == InsertBooking(bookings, sqlite_seq, pending[c].date,
                              pending[c].start_time, pending[c].duration,
                              pending[c].client_id, pending[c].service_name)
       IN  /\ bookings' = e.rows
           /\ sqlite_seq' = e.seq
           /\ result' = Result("book_slot", e, bookings, None)
           /\ issued' = issued \cup {e.ret}
    /\ pending' = [pending EXCEPT ![c] = Idle]
    /\ storage' = <<TRUE, TRUE>>
    /\ UNCHANGED search

BookSlotCheckStep ==
    \E c \in Callers, a \in RaceArgs :
        BookSlotCheck(c, a[1], a[2], a[3], a[4], a[5])

BookSlotInsertStep == \E c \in Callers : BookSlotInsert(c)

\* cancel_booking, by a caller that is not inside book_slot
RaceCancelStep ==
    \E c \in Callers, booking_id \in BookingIds :
        /\ search = Idle
        /\ pending[c] = Idle
        /\ LET e == cancel_booking(bookings, sqlite_seq, booking_id, TRUE)
           IN  /\ bookings' = e.rows
               /\ sqlite_seq' = e.seq
               /\ result' = Result("cancel_booking", e, bookings, booking_id)
        /\ storage' = <<TRUE>>
        /\ UNCHANGED <<issued, search, pending>>

RaceNext ==
    \/ BookSlotCheckStep
    \/ BookSlotInsertStep
    \/ RaceCancelStep

RaceSpec == Init /\ [][RaceNext]_vars

----------------------------------------------------------------------------
(* next_available_slot, one iteration of its while loop per step; every   *)
(* is_slot_available it calls opens a connection of its own, which may     *)
(* fail or not                                                             *)

\* ((date, time), duration): before, inside and after the working hours, a
\* time that does not parse and an invalid duration
LoopArgs ==
    {<<<<Date0401, Time0800>>, PyInt(60)>>, <<<<Date0401, Time1005>>, PyInt(30)>>,
     <<<<Date0401, Time1700>>, PyInt(30)>>, <<<<Date0401, Time9_60>>, PyInt(30)>>,
     <<<<Date0401, Time1000>>, PyInt(0)>>}

Running == [exc |-> "running", ret |-> NoSlot]

\* lines 306-317: up to the loop
SearchEnter(after_date_time, duration) ==
    /\ NoneInProgress
    /\ IF ~ ValidDuration(duration)
       THEN /\ result' = Result("next_available_slot", Raise("InvalidDuration"),
                                bookings, None)
            /\ search' = Idle
       ELSE IF ~ (DateParses(after_date_time[1]) /\ TimeParses(after_date_time[2]))
       THEN /\ result' = Result("next_available_slot", Return(NoSlot),
                                bookings, None)
            /\ search' = Idle
       ELSE LET start_dt == CombineDatetime(ParseDate(after_date_time[1]),
                                            ParseTime(after_date_time[2]))
                current_dt == start_dt + MinuteOffset(start_dt)
            IN  /\ result' = Result("next_available_slot", Running, bookings, None)
                /\ search' = [pc |-> "loop", duration |-> duration,
                              start_dt |-> start_dt, current_dt |-> current_dt,
                              search_limit_dt |->
                                  current_dt + SearchDays * MinutesPerDay]
    /\ storage' = <<TRUE>>
    /\ UNCHANGED <<bookings, sqlite_seq, issued, pending>>

\* lines 319-339: the loop test and one iteration, or the return after it
SearchLoop(db_ok) ==
    /\ search.pc = "loop"
    /\ IF ~ (search.current_dt < search.search_limit_dt)
       THEN /\ result' = Result("next_available_slot", Return(NoSlot),
                                bookings, None)
            /\ search' = Idle
       ELSE LET body == LoopBody(bookings, search.duration, search.current_dt,
                                 db_ok)
            IN  IF body.returned
                THEN /\ result' = Result("next_available_slot", Return(body.ret),
                                         bookings, None)
                     /\ search' = Idle
                ELSE /\ search' = [search EXCEPT !.current_dt = body.current_dt]
                     /\ UNCHANGED result
    /\ storage' = <<db_ok>>
    /\ UNCHANGED <<bookings, sqlite_seq, issued, pending>>

SearchEnterStep == \E a \in LoopArgs : SearchEnter(a[1], a[2])

SearchLoopStep == \E db_ok \in BOOLEAN : SearchLoop(db_ok)

SearchNext ==
    \/ SearchEnterStep
    \/ SearchLoopStep

\* The interpreter goes on with a loop it is in: weak fairness of
\* SearchLoopStep, written out as "always eventually disabled or taken",
\* a step of the loop being possible exactly when search.pc = "loop"
SearchFairness ==
    []<>(search.pc # "loop") \/ []<><<SearchLoopStep>>_vars

SearchSpec == Init /\ [][SearchNext]_vars /\ SearchFairness

----------------------------------------------------------------------------
(* The search that jumps: where next_available_slot moves on by 15 minutes *)
(* after a failed check, the variant the design allows moves the candidate *)
(* to the end_time of a Booking that blocks it.  The code has no such      *)
(* search; it is taken from the description of the search in spec.md.      *)

\* the Bookings that block the candidate current_dt: the rows the query of
\* is_slot_available finds
Blocking(rows, duration, current_dt) ==
    OverlapQuery(rows, FormatDate(DateOf(current_dt)),
                 FormatTime(TimeOf(current_dt)),
                 FormatTime(TimeOf(CalculateEndDatetime(current_dt, duration.val))))

\* the candidate moved to the end_time of blocking Booking b, on its date
JumpTo(current_dt, b) ==
    CombineDatetime(DateOf(current_dt), ParseTime(b.end_time))

\* the answer of a search that does not come to one: a jump that does not
\* move the candidate forward is repeated for ever
NoAnswer == <<NoSlot>>

\* the answers the search that jumps can give from current_dt, one for each
\* choice of the blocking Booking at each failed check
RECURSIVE JumpAnswers(_, _, _, _)
JumpAnswers(rows, duration, current_dt, search_limit_dt) ==
    IF ~ (current_dt < search_limit_dt) THEN {NoSlot}
    ELSE LET body == LoopBody(rows, duration, current_dt, TRUE)
         IN  IF body.returned THEN {body.ret}
             ELSE IF Blocking(rows, duration, current_dt) = {}
             THEN JumpAnswers(rows, duration, body.current_dt, search_limit_dt)
             ELSE UNION {IF JumpTo(current_dt, b) <= current_dt THEN {NoAnswer}
                         ELSE JumpAnswers(rows, duration, JumpTo(current_dt, b),
                                          search_limit_dt) :
                            b \in Blocking(rows, duration, current_dt)}

\* the search that jumps, from the same first candidate as next_available_slot
JumpSearch(rows, after_date_time, duration) ==
    LET start_dt == CombineDatetime(ParseDate(after_date_time[1]),
                                    ParseTime(after_date_time[2]))
        current_dt == start_dt + MinuteOffset(start_dt)
    IN  JumpAnswers(rows, duration, current_dt,
                    current_dt + SearchDays * MinutesPerDay)

\* Bookings of one day that start on and off the quarter hours, and searches
\* over them, one with a duration that takes a candidate past midnight
Time1100 == FormatTime(660)
LongDuration == 51 * Granularity

StrategyBookArgs ==
    {<<Date0401, t[1], PyInt(t[2]), StrOfLen(1), StrOfLen(1)>> :
        t \in {<<Time0900, 30>>, <<Time0930, 60>>, <<Time1005, 30>>,
               <<Time1100, 30>>}}

StrategySearchArgs ==
    {<<<<Date0401, Time0900>>, PyInt(30)>>, <<<<Date0401, Time0900>>, PyInt(60)>>,
     <<<<Date0401, Time1000>>, PyInt(30)>>, <<<<Date0401, Time1100>>, PyInt(30)>>,
     <<<<Date0401, Time1100>>, PyInt(LongDuration)>>}

StrategyBookStep ==
    \E a \in StrategyBookArgs :
        BookSlotCall(a[1], a[2], a[3], a[4], a[5], TRUE, TRUE)

StrategySearchStep ==
    \E a \in StrategySearchArgs : NextAvailableSlotCall(a[1], a[2])

StrategyNext ==
    \/ StrategyBookStep
    \/ CancelBookingStep
    \/ StrategySearchStep

StrategySpec == Init /\ [][StrategyNext]_vars

----------------------------------------------------------------------------
(* slot_calendar_tools: the tool adapter.  args is a Python value; a field *)
(* map is the dict [type |-> "dict", val |-> m] with m a function from     *)
(* field names.  A tool answers with a dict, here a record.                *)

PyNone == [type |-> "NoneType", val |-> None]
PyList(s) == [type |-> "list", val |-> s]
PyDict(m) == [type |-> "dict", val |-> m]

\* the ValueError instances the engine raises, named by what they report
ValueErrors ==
    {"InvalidDuration", "ClientIdTooLong", "ServiceNameTooLong",
     "SlotNotAvailable"}

\* the instances of Exception raised below the adapter
Exceptions ==
    ValueErrors \cup {"ValueError", "TypeError", "AttributeError",
                      "sqlite3.Error", "JSONDecodeError"}

\* the truth value all() takes of a field
Truthy(v) ==
    CASE v.type = "NoneType" -> FALSE
      [] v.type \in {"int", "float"} -> v.val # 0
      [] OTHER -> Len(v.val) > 0

\* args.get(k)
Get(m, k) == IF k \in DOMAIN m THEN m[k] ELSE PyNone

\* int(v) of an int, of a float holding a whole number and of a str that is
\* empty, all digits or holds a letter; any other type is a TypeError
int(v) ==
    CASE v.type = "int" -> Return(v.val)
      [] v.type = "float" -> Return(v.val)
      [] v.type = "str" -> IF Len(v.val) > 0 /\ AllDigits(v.val)
                           THEN Return(NumVal(v.val))
                           ELSE Raise("ValueError")
      [] OTHER -> Raise("TypeError")

MissingParameters == "Missing required parameters"
DurationNotInteger == "Duration must be an integer"
NoSlotFound == "No available slot found within the next year"
UnexpectedError == "Unexpected error"
UnknownTool == "Unknown tool"
InvalidJson == "Invalid JSON arguments"
ToolExecutionError == "Tool execution error"

Failure(error) == [success |-> FALSE, error |-> error]

\* what a try block comes to: its outcome and the engine operations it called
Try(out, called) == [exc |-> out.exc, ret |-> out.ret, called |-> called]

\* strptime raises TypeError for a value that is not a str; the date is
\* parsed first, and a date that does not parse is a ValueError
StrptimeTypeError(date, time) ==
    date.type # "str" \/ (DateParses(date.val) /\ time.type # "str")

\* the fields every tool reads first (lines 30-46, 92-108, 149-167): the
\* answer that ends the call there, or none and the duration as an int
Coerce(required, duration) ==
    IF \E v \in required : ~ Truthy(v)
    THEN [done |-> TRUE, out |-> Return(Failure(MissingParameters))]
    ELSE IF int(duration).exc = "ValueError"
    THEN [done |-> TRUE, out |-> Return(Failure(DurationNotInteger))]
    ELSE IF int(duration).exc # "none"
    THEN [done |-> TRUE, out |-> Raise(int(duration).exc)]
    ELSE [done |-> FALSE, duration |-> PyInt(int(duration).ret)]

\* a tool without "except Exception"
CaughtUnexpectedMut(e) == FALSE

\* except Exception
CaughtUnexpected(e) == e \in Exceptions

\* the except clauses every tool ends with, on the outcome t of its try block
ExceptClauses(t) ==
    IF t.exc = "none" THEN t
    ELSE IF t.exc \in ValueErrors \cup {"ValueError"}
    THEN Try(Return(Failure(t.exc)), t.called)
    ELSE IF CaughtUnexpected(t.exc)
    THEN Try(Return(Failure(UnexpectedError)), t.called)
    ELSE t

\* a tool's outcome with the table and the sequence the call leaves
ToolEffect(t, rows, seq) ==
    [exc |-> t.exc, ret |-> t.ret, called |-> t.called, rows |-> rows,
     seq |-> seq]

next_available_slot_tool(rows, seq, args) ==
    LET after_date == Get(args.val, "after_date")
        after_time == Get(args.val, "after_time")
        duration == Get(args.val, "duration")
        c == Coerce({after_date, after_time, duration}, duration)
        e == next_available_slot(rows, <<after_date.val, after_time.val>>,
                                 c.duration, TRUE)
        t == IF args.type # "dict" THEN Try(Raise("AttributeError"), <<>>)
             ELSE IF c.done THEN Try(c.out, <<>>)
             ELSE IF ~ ValidDuration(c.duration)
             THEN Try(Raise("InvalidDuration"), <<"next_available_slot">>)
             ELSE IF StrptimeTypeError(after_date, after_time)
             THEN Try(Raise("TypeError"), <<"next_available_slot">>)
             ELSE IF e.ret # NoSlot
             THEN Try(Return([success |-> TRUE, date |-> e.ret[1],
                              time |-> e.ret[2]]),
                      <<"next_available_slot">>)
             ELSE Try(Return(Failure(NoSlotFound)), <<"next_available_slot">>)
    IN  ToolEffect(ExceptClauses(t), rows, seq)

is_slot_available_tool(rows, seq, args, db_ok) ==
    LET date == Get(args.val, "date")
        time == Get(args.val, "time")
        duration == Get(args.val, "duration")
        c == Coerce({date, time, duration}, duration)
        e == is_slot_available(rows, date.val, time.val, c.duration, db_ok)
        t == IF args.type # "dict" THEN Try(Raise("AttributeError"), <<>>)
             ELSE IF c.done THEN Try(c.out, <<>>)
             ELSE IF ~ ValidDuration(c.duration)
             THEN Try(Raise("InvalidDuration"), <<"is_slot_available">>)
             ELSE IF StrptimeTypeError(date, time)
             THEN Try(Raise("TypeError"), <<"is_slot_available">>)
             ELSE Try(Return([success |-> TRUE, available |-> e.ret]),
                      <<"is_slot_available">>)
    IN  ToolEffect(ExceptClauses(t), rows, seq)

\* book_slot takes len() of client_id and of service_name before it parses
\* the date: a TypeError for a value that is not a str
BookSlotTypeError(date, time, client_id, service_name) ==
    \/ client_id.type # "str"
    \/ /\ Len(client_id.val) <= MaxClientIdLen
       /\ \/ service_name.type # "str"
          \/ /\ Len(service_name.val) <= MaxServiceNameLen
             /\ StrptimeTypeError(date, time)

book_slot_tool(rows, seq, args, check_ok, insert_ok) ==
    LET date == Get(args.val, "date")
        time == Get(args.val, "time")
        duration == Get(args.val, "duration")
        client_id == Get(args.val, "client_id")
        service_name == Get(args.val, "service_name")
        c == Coerce({date, time, duration, client_id, service_name}, duration)
        e == book_slot(rows, seq, date.val, time.val, c.duration, client_id.val,
                       service_name.val, check_ok, insert_ok)
    IN  IF args.type # "dict"
        THEN ToolEffect(ExceptClauses(Try(Raise("AttributeError"), <<>>)),
                        rows, seq)
        ELSE IF c.done THEN ToolEffect(ExceptClauses(Try(c.out, <<>>)), rows, seq)
        ELSE IF ~ ValidDuration(c.duration)
        THEN ToolEffect(ExceptClauses(Try(Raise("InvalidDuration"),
                                          <<"book_slot">>)), rows, seq)
        ELSE IF BookSlotTypeError(date, time, client_id, service_name)
        THEN ToolEffect(ExceptClauses(Try(Raise("TypeError"), <<"book_slot">>)),
                        rows, seq)
        ELSE IF e.exc # "none"
        THEN ToolEffect(ExceptClauses(Try(Raise(e.exc), <<"book_slot">>)),
                        e.rows, e.seq)
        ELSE ToolEffect(Try(Return([success |-> TRUE, booked |-> e.ret]),
                            <<"book_slot">>), e.rows, e.seq)

\* slot_calendar has no release_slot: the attribute lookup of line 215 raises
release_slot_tool(rows, seq, args) ==
    LET date == Get(args.val, "date")
        time == Get(args.val, "time")
        t == IF args.type # "dict" THEN Try(Raise("AttributeError"), <<>>)
             ELSE IF ~ (Truthy(date) /\ Truthy(time))
             THEN Try(Return(Failure(MissingParameters)), <<>>)
             ELSE Try(Raise("AttributeError"), <<>>)
    IN  ToolEffect(ExceptClauses(t), rows, seq)

CALENDAR_TOOLS ==
    {"next_available_slot", "is_slot_available", "book_slot", "release_slot"}

\* tool_func(args) of the tool that CALENDAR_TOOLS gives for tool_name
ToolFunc(tool_name, rows, seq, args, check_ok, insert_ok) ==
    CASE tool_name = "next_available_slot" ->
             next_available_slot_tool(rows, seq, args)
      [] tool_name = "is_slot_available" ->
             is_slot_available_tool(rows, seq, args, check_ok)
      [] tool_name = "book_slot" ->
             book_slot_tool(rows, seq, args, check_ok, insert_ok)
      [] tool_name = "release_slot" -> release_slot_tool(rows, seq, args)

\* the text of a JSON document holding value v, and a text that is none
JsonText(v) == [type |-> "str", parses |-> TRUE, val |-> v]
NotJson == [type |-> "str", parses |-> FALSE, val |-> PyNone]

\* json.dumps(r): the text that holds r
Dumps(r) == [json |-> r]

\* every outcome of the tool reported as an execution error
DumpedMut(e) ==
    ToolEffect(Try(Return(Dumps(Failure(ToolExecutionError))), e.called),
               e.rows, e.seq)

\* lines 269-270 and 276-280: what execute_calendar_tool makes of the outcome
\* e of the tool
Dumped(e) ==
    IF e.exc = "none"
    THEN ToolEffect(Try(Return(Dumps(e.ret)), e.called), e.rows, e.seq)
    ELSE IF CaughtUnexpected(e.exc)
    THEN ToolEffect(Try(Return(Dumps(Failure(ToolExecutionError))), e.called),
                    e.rows, e.seq)
    ELSE e

\* the tool is called once
execute_calendar_tool(rows, seq, tool_name, args_json, check_ok, insert_ok) ==
    IF ~ args_json.parses
    THEN ToolEffect(Try(Return(Dumps(Failure(InvalidJson))), <<>>), rows, seq)
    ELSE IF tool_name \notin CALENDAR_TOOLS
    THEN ToolEffect(Try(Return(Dumps(Failure(UnknownTool))), <<>>), rows, seq)
    ELSE CHOOSE r \in {Dumped(e) : e \in {ToolFunc(tool_name, rows, seq,
                                                  args_json.val, check_ok,
                                                  insert_ok)}} : TRUE

\* the fields of the requests: one slot asked in full, and each field in
\* turn left out, empty, zero, null, a digit string, a word, a float, a list
\* or an int where a str is expected
Str30 == PyStr(<<Ch(3), Ch(0)>>)
StrWord == PyStr(<<97, 98, 99>>)
StrEmpty == PyStr(<<>>)

FullFields ==
    {[date |-> PyStr(Date0401), time |-> PyStr(t), duration |-> PyInt(60),
      client_id |-> PyStr(StrOfLen(1)), service_name |-> PyStr(StrOfLen(1))] :
        t \in {Time0900, Time1000}}

DurationValues ==
    {PyInt(30), PyInt(0), PyInt(10), PyInt(-15), Str30, StrWord, StrEmpty,
     PyFloat(30),
     PyList(<<30>>), PyNone}

With(m, k, v) == [x \in DOMAIN m |-> IF x = k THEN v ELSE m[x]]

Without(m, k) == [x \in DOMAIN m \ {k} |-> m[x]]

\* the request for 10:00 that the others are made from
Fields1000 ==
    [date |-> PyStr(Date0401), time |-> PyStr(Time1000), duration |-> PyInt(60),
     client_id |-> PyStr(StrOfLen(1)), service_name |-> PyStr(StrOfLen(1))]

AllFields ==
    FullFields
        \cup {Without(Fields1000, k) : k \in DOMAIN Fields1000}
        \cup {With(Fields1000, "duration", v) : v \in DurationValues}
        \cup {With(Fields1000, "date", v) :
                 v \in {StrEmpty, PyInt(20250401), PyStr(Date0431)}}
        \cup {With(Fields1000, "client_id", v) :
                 v \in {StrEmpty, PyStr(StrOfLen(MaxClientIdLen + 1))}}

\* the field map of a tool: the fields it reads, under the names it reads
Restrict(m, keys) == [x \in keys \cap DOMAIN m |-> m[x]]

SlotFields == {"date", "time", "duration"}
BookFields == SlotFields \cup {"client_id", "service_name"}
ReleaseFields == {"date", "time"}

SearchFieldsOf(m) ==
    [x \in {IF k = "date" THEN "after_date" ELSE IF k = "time" THEN "after_time"
            ELSE k : k \in SlotFields \cap DOMAIN m} |->
        IF x = "after_date" THEN m.date ELSE IF x = "after_time" THEN m.time
        ELSE m[x]]

ToolArgs(tool_name) ==
    CASE tool_name = "next_available_slot" ->
             {PyDict(SearchFieldsOf(m)) : m \in AllFields}
      [] tool_name = "is_slot_available" ->
             {PyDict(Restrict(m, SlotFields)) : m \in AllFields}
      [] tool_name = "book_slot" ->
             {PyDict(Restrict(m, BookFields)) : m \in AllFields}
      [] tool_name = "release_slot" ->
             {PyDict(Restrict(m, ReleaseFields)) : m \in AllFields}

\* what execute_calendar_tool is given: a tool name, known or not, and a
\* text that is a JSON object, a JSON array, null or no JSON
ToolNames == CALENDAR_TOOLS \cup {"cancel_booking"}

ArgsJson ==
    {JsonText(PyDict(m)) :
        m \in FullFields \cup {Without(Fields1000, "time"),
                               With(Fields1000, "duration", PyInt(0)),
                               SearchFieldsOf(Fields1000)}}
        \cup {JsonText(PyList(<<30>>)), JsonText(PyNone), NotJson}

\* result of an adapter call: the tool and what it was given, its answer,
\* the engine operations it called and the table it found
ToolResult(op, args, e, before) ==
    [op |-> op, args |-> args, exc |-> e.exc, ret |-> e.ret,
     called |-> e.called, before |-> before, booking_id |-> None]

ToolCall(op, args, e, db) ==
    /\ NoneInProgress
    /\ bookings' = e.rows
    /\ sqlite_seq' = e.seq
    /\ result' = ToolResult(op, args, e, bookings)
    /\ issued' = IF e.rows # bookings THEN issued \cup {PyInt(e.seq)} ELSE issued
    /\ storage' = db
    /\ UNCHANGED <<search, pending>>

NextAvailableSlotToolStep ==
    \E args \in ToolArgs("next_available_slot") :
        \E e \in {next_available_slot_tool(bookings, sqlite_seq, args)} :
            ToolCall("next_available_slot_tool", args, e, <<TRUE>>)

IsSlotAvailableToolStep ==
    \E args \in ToolArgs("is_slot_available"), db_ok \in BOOLEAN :
        \E e \in {is_slot_available_tool(bookings, sqlite_seq, args, db_ok)} :
            ToolCall("is_slot_available_tool", args, e, <<db_ok>>)

BookSlotToolStep ==
    \E args \in ToolArgs("book_slot"), check_ok \in BOOLEAN, insert_ok \in BOOLEAN :
        /\ sqlite_seq < MaxBookings
        /\ \E e \in {book_slot_tool(bookings, sqlite_seq, args, check_ok,
                                     insert_ok)} :
               ToolCall("book_slot_tool", args, e, <<check_ok, insert_ok>>)

ReleaseSlotToolStep ==
    \E args \in ToolArgs("release_slot") :
        \E e \in {release_slot_tool(bookings, sqlite_seq, args)} :
            ToolCall("release_slot_tool", args, e, <<TRUE>>)

ExecuteCalendarToolStep ==
    \E tool_name \in ToolNames, check_ok \in BOOLEAN, insert_ok \in BOOLEAN :
        \E args_json \in ArgsJson :
            /\ sqlite_seq < MaxBookings
            /\ \E e \in {execute_calendar_tool(bookings, sqlite_seq, tool_name,
                                                 args_json, check_ok, insert_ok)} :
                   ToolCall("execute_calendar_tool", <<tool_name, args_json>>, e,
                            <<check_ok, insert_ok>>)

AdapterNext ==
    \/ NextAvailableSlotToolStep
    \/ IsSlotAvailableToolStep
    \/ BookSlotToolStep
    \/ ReleaseSlotToolStep
    \/ ExecuteCalendarToolStep

AdapterSpec == Init /\ [][AdapterNext]_vars

----------------------------------------------------------------------------
(* The MCP server (mcp/server.py): calendar_tool, the handler of a tool   *)
(* call, passes arguments[...] to the engine and answers with a text       *)

\* [types.TextContent(type="text", text=f"...")]: the f-string and the
\* values that fill it
TextContent(text, values) == <<[type |-> "text", text |-> text, values |-> values]>>

BookingSuccessful == "Booking successful. Your booking ID is: {}"

CancelledSuccessfully == "Booking {} has been cancelled successfully."

AvailableSlotsOn == "Available slots on {}: {}"

NoAvailableSlots == "No available slots found on {} for duration {} minutes."

\* arguments[k] for every k of keys, or the KeyError of the first one missing
HasKeys(arguments, keys) == keys \subseteq DOMAIN arguments

calendar_tool(rows, seq, name, arguments, check_ok, insert_ok) ==
    IF name = "is_slot_available"
    THEN IF ~ HasKeys(arguments, {"date", "time", "duration"})
         THEN Effect(Raise("KeyError"), rows, seq)
         ELSE Effect(is_slot_available(rows, arguments.date, arguments.time,
                                       arguments.duration, check_ok),
                     rows, seq)
    ELSE IF name = "book_slot"
    THEN IF ~ HasKeys(arguments, {"date", "start_time", "duration", "client_id",
                                  "service_name"})
         THEN Effect(Raise("KeyError"), rows, seq)
         ELSE LET e == book_slot(rows, seq, arguments.date, arguments.start_time,
                                 arguments.duration, arguments.client_id,
                                 arguments.service_name, check_ok, insert_ok)
              IN  IF e.exc = "none"
                  THEN Effect(Return(TextContent(BookingSuccessful, <<e.ret>>)),
                              e.rows, e.seq)
                  ELSE e
    ELSE IF name = "cancel_booking"
    THEN IF ~ HasKeys(arguments, {"booking_id"})
         THEN Effect(Raise("KeyError"), rows, seq)
         ELSE LET e == cancel_booking(rows, seq, arguments.booking_id, check_ok)
              IN  IF e.exc = "none"
                  THEN Effect(Return(TextContent(CancelledSuccessfully,
                                                 <<arguments.booking_id>>)),
                              e.rows, e.seq)
                  ELSE e
    ELSE IF name = "slots_available_on_day"
    THEN IF ~ HasKeys(arguments, {"date", "duration"})
         THEN Effect(Raise("KeyError"), rows, seq)
         ELSE LET e == slots_available_on_day(rows, arguments.date,
                                              arguments.duration, check_ok)
              IN  IF e.exc # "none" THEN Effect(e, rows, seq)
                  ELSE IF e.ret # <<>>
                  THEN Effect(Return(TextContent(AvailableSlotsOn,
                                                 <<arguments.date, e.ret>>)),
                              rows, seq)
                  ELSE Effect(Return(TextContent(NoAvailableSlots,
                                                 <<arguments.date,
                                                   arguments.duration>>)),
                              rows, seq)
    ELSE Effect(Raise("ValueError"), rows, seq)

\* the tools of list_tools, and a name that is none of them
McpToolNames ==
    {"is_slot_available", "book_slot", "cancel_booking", "slots_available_on_day"}

UnlistedTool == "release_slot"

\* (date, time, duration) of the tool calls
McpSlots ==
    {<<Date0401, Time0900, PyInt(30)>>, <<Date0401, Time0930, PyInt(60)>>,
     <<Date0402, Time1000, PyInt(60)>>, <<Date0401, Time1000, PyInt(0)>>}

\* the arguments of a call of the tool name: every key of its inputSchema,
\* or another key only
McpArguments(name) ==
    {[id |-> PyInt(1)]} \cup
    (CASE name = "is_slot_available" ->
              {[date |-> a[1], time |-> a[2], duration |-> a[3]] : a \in McpSlots}
       [] name = "book_slot" ->
              {[date |-> a[1], start_time |-> a[2], duration |-> a[3],
                client_id |-> StrOfLen(MaxClientIdLen),
                service_name |-> StrOfLen(MaxServiceNameLen)] : a \in McpSlots}
       [] name = "cancel_booking" ->
              {[booking_id |-> booking_id] : booking_id \in BookingIds}
       [] name = "slots_available_on_day" ->
              {[date |-> a[1], duration |-> a[3]] : a \in McpSlots}
       [] OTHER -> {})

\* result of a tool call: the name and the arguments, the answer and the
\* table the call found
McpResult(name, arguments, e, before) ==
    [op |-> "calendar_tool", args |-> <<name, arguments>>, exc |-> e.exc,
     ret |-> e.ret, before |-> before, booking_id |-> None]

CalendarToolCall(name, arguments, e, db) ==
    /\ NoneInProgress
    /\ bookings' = e.rows
    /\ sqlite_seq' = e.seq
    /\ result' = McpResult(name, arguments, e, bookings)
    /\ issued' = IF e.seq # sqlite_seq THEN issued \cup {PyInt(e.seq)} ELSE issued
    /\ storage' = db
    /\ UNCHANGED <<search, pending>>

McpIsSlotAvailableStep ==
    \E arguments \in McpArguments("is_slot_available"), db_ok \in BOOLEAN :
        \E e \in {calendar_tool(bookings, sqlite_seq, "is_slot_available",
                                arguments, db_ok, db_ok)} :
            CalendarToolCall("is_slot_available", arguments, e, <<db_ok>>)

McpBookSlotStep ==
    \E arguments \in McpArguments("book_slot") :
        \E check_ok \in BOOLEAN, insert_ok \in BOOLEAN :
            /\ sqlite_seq < MaxBookings
            /\ \E e \in {calendar_tool(bookings, sqlite_seq, "book_slot",
                                       arguments, check_ok, insert_ok)} :
                   CalendarToolCall("book_slot", arguments, e,
                                    <<check_ok, insert_ok>>)

McpCancelBookingStep ==
    \E arguments \in McpArguments("cancel_booking"), db_ok \in BOOLEAN :
        \E e \in {calendar_tool(bookings, sqlite_seq, "cancel_booking",
                                arguments, db_ok, db_ok)} :
            CalendarToolCall("cancel_booking", arguments, e, <<db_ok>>)

McpSlotsAvailableOnDayStep ==
    \E arguments \in McpArguments("slots_available_on_day"), db_ok \in BOOLEAN :
        \E e \in {calendar_tool(bookings, sqlite_seq, "slots_available_on_day",
                                arguments, db_ok, db_ok)} :
            CalendarToolCall("slots_available_on_day", arguments, e, <<db_ok>>)

McpUnlistedToolStep ==
    \E arguments \in McpArguments(UnlistedTool) :
        \E e \in {calendar_tool(bookings, sqlite_seq, UnlistedTool, arguments,
                                TRUE, TRUE)} :
            CalendarToolCall(UnlistedTool, arguments, e, <<TRUE>>)

McpNext ==
    \/ McpCancelBookingStep
    \/ McpIsSlotAvailableStep
    \/ McpBookSlotStep
    \/ McpSlotsAvailableOnDayStep
    \/ McpUnlistedToolStep

McpSpec == Init /\ [][McpNext]_vars

----------------------------------------------------------------------------
(* The notions the properties are stated in: dates and times of day as     *)
(* values, whatever str they were written as                               *)

SameDay(date1, date2) == ParseDate(date1) = ParseDate(date2)

\* the half-open interval of a row: from its start_time on, for its
\* duration_minutes (end_time is the time of day at which that interval ends)
RowStart(b) == ParseTime(b.start_time)

RowEnd(b) == RowStart(b) + b.duration_minutes

\* glossary: two intervals [s1, e1) and [s2, e2) overlap
IntervalsOverlap(s1, e1, s2, e2) == s1 < e2 /\ e1 > s2

PositiveMultipleOf15(duration) ==
    duration.type = "int" /\ \E k \in 1..100 : duration.val = 15 * k

\* a request is (date, time, duration, ...); its interval is [S, S + duration)
RequestDefined(a) ==
    PositiveMultipleOf15(a[3]) /\ DateParses(a[1]) /\ TimeParses(a[2])

RequestOverlaps(a, b) ==
    /\ SameDay(a[1], b.date)
    /\ IntervalsOverlap(ParseTime(a[2]), ParseTime(a[2]) + a[3].val,
                        RowStart(b), RowEnd(b))

RequestAdjacent(a, b) ==
    /\ SameDay(a[1], b.date)
    /\ (ParseTime(a[2]) = RowEnd(b) \/ ParseTime(a[2]) + a[3].val = RowStart(b))

FieldsFit(a) == Len(a[4]) <= 32 /\ Len(a[5]) <= 100

BookSucceeded == result.op = "book_slot" /\ result.exc = "none"

----------------------------------------------------------------------------
(* C1..C5: overlap *)

\* C1: no two persisted Bookings on the same date have overlapping
\* half-open [start_time, end_time) intervals
C1_NoDoubleBooking ==
    \A a, b \in bookings :
        (a # b /\ SameDay(a.date, b.date))
            => ~ IntervalsOverlap(RowStart(a), RowEnd(a), RowStart(b), RowEnd(b))

\* C2: with a valid duration, is_slot_available returns true if and only if
\* no persisted Booking on that date has [Bs, Be) with start < Be and
\* start + duration > Bs
C2_AvailableIffNoOverlap ==
    \A a \in SlotArgs :
        RequestDefined(a)
            => (is_slot_available(bookings, a[1], a[2], a[3], TRUE).ret
                    <=> ~ \E b \in bookings : RequestOverlaps(a, b))

\* C3: after book_slot(date, start, duration, ..) has returned a booking id,
\* is_slot_available(date, start, duration) returns false
C3_BookedSlotUnavailable ==
    BookSucceeded
        => \A r \in bookings :
               r.booking_id = result.ret
                   => is_slot_available(bookings, r.date, r.start_time,
                                        PyInt(r.duration_minutes), TRUE).ret = FALSE

\* C4: book_slot on an interval that overlaps an existing Booking on the same
\* date raises the slot-not-available ValueError and leaves the table unchanged
C4_OverlapRejected ==
    [][\A a \in BookArgs :
          (/\ RequestDefined(a) /\ FieldsFit(a)
           /\ \E b \in bookings : RequestOverlaps(a, b)
           /\ BookSlotCall(a[1], a[2], a[3], a[4], a[5], TRUE, TRUE))
              => (result'.exc = "SlotNotAvailable" /\ bookings' = bookings)]_vars

\* C5: book_slot for an interval that starts where a Booking of that date
\* ends, or ends where it starts, and that overlaps no Booking, succeeds
C5_AdjacentBookingSucceeds ==
    [][\A a \in BookArgs :
          (/\ RequestDefined(a) /\ FieldsFit(a)
           /\ \E b \in bookings : RequestAdjacent(a, b)
           /\ ~ \E b \in bookings : RequestOverlaps(a, b)
           /\ BookSlotCall(a[1], a[2], a[3], a[4], a[5], TRUE, TRUE))
              => result'.exc = "none"]_vars

----------------------------------------------------------------------------
(* C6..C7: validation *)

\* the durations the validation is tried with: 0, -15, 10, 17, 31 and a
\* float; the multiples of 15 up to 120, of which the calls that do more than
\* one query get the least and the greatest
InvalidProbes == {PyInt(n) : n \in {0, -15, 10, 17, 31}} \cup {PyFloat(30)}

ProbeDurations == InvalidProbes \cup {PyInt(15 * k) : k \in 1..8}

SearchProbeDurations == InvalidProbes \cup {PyInt(15), PyInt(120)}

\* C6: is_slot_available, book_slot, slots_available_on_day and
\* next_available_slot raise the invalid-duration ValueError exactly when the
\* duration is not a positive integer multiple of 15, whatever the table
\* holds and whatever the other arguments are
C6_InvalidDurationExactly ==
    /\ \A d \in ProbeDurations :
           /\ (is_slot_available(bookings, Date0401, Time1000, d, TRUE).exc
                  = "InvalidDuration") <=> ~ PositiveMultipleOf15(d)
           /\ (book_slot(bookings, sqlite_seq, Date0401, Time1000, d,
                         StrOfLen(32), StrOfLen(100), TRUE, TRUE).exc
                  = "InvalidDuration") <=> ~ PositiveMultipleOf15(d)
    /\ \A d \in SearchProbeDurations :
           /\ (is_slot_available(bookings, Date0431, Time9_60, d, TRUE).exc
                  = "InvalidDuration") <=> ~ PositiveMultipleOf15(d)
           /\ (book_slot(bookings, sqlite_seq, Date0431, Time9_60, d,
                         StrOfLen(33), StrOfLen(101), TRUE, TRUE).exc
                  = "InvalidDuration") <=> ~ PositiveMultipleOf15(d)
           /\ (slots_available_on_day(bookings, Date0401, d, TRUE).exc
                  = "InvalidDuration") <=> ~ PositiveMultipleOf15(d)
           /\ (next_available_slot(bookings, <<Date0401, Time2330>>, d, TRUE).exc
                  = "InvalidDuration") <=> ~ PositiveMultipleOf15(d)

\* a call of next_available_slot on a table with Bookings raised it
C6_Witness ==
    /\ result.op = "next_available_slot"
    /\ result.exc = "InvalidDuration"
    /\ bookings # {}

ValidationErrors == {"InvalidDuration", "ClientIdTooLong", "ServiceNameTooLong"}

\* C7: a book_slot call with an invalid duration, a client_id of more than 32
\* or a service_name of more than 100 characters raises a ValueError whether
\* or not the storage answers and leaves the table and the id counter as they
\* were; every persisted Booking has a positive duration that is a multiple
\* of 15, a client_id of at most 32 and a service_name of at most 100 characters
C7_ValidationFailFast ==
    /\ \A a \in BookArgs, check_ok \in BOOLEAN, insert_ok \in BOOLEAN :
           ~ (PositiveMultipleOf15(a[3]) /\ FieldsFit(a))
               => LET e == book_slot(bookings, sqlite_seq, a[1], a[2], a[3],
                                     a[4], a[5], check_ok, insert_ok)
                  IN  /\ e.exc \in ValidationErrors
                      /\ e.rows = bookings
                      /\ e.seq = sqlite_seq
    /\ (result.op = "book_slot" /\ result.exc \in ValidationErrors)
           => bookings = result.before
    /\ \A r \in bookings :
           /\ r.duration_minutes > 0
           /\ r.duration_minutes % 15 = 0
           /\ Len(r.customer_id) <= 32
           /\ Len(r.service_name) <= 100

\* a call with too long a service_name failed on a table with Bookings
C7_Witness ==
    /\ result.op = "book_slot"
    /\ result.exc = "ServiceNameTooLong"
    /\ bookings # {}

----------------------------------------------------------------------------
(* C8..C10: cancellation and booking ids *)

\* a booking_id argument that identifies no row of the table
IdentifiesNoRow(booking_id, rows) ==
    booking_id.type # "int" \/ ~ \E r \in rows : r.booking_id = booking_id.val

\* C8: cancel_booking with a booking_id that identifies no persisted Booking
\* returns false, does not raise, and leaves the table and the id counter as
\* they were, whether or not the storage answers
C8_CancelAbsentReturnsFalse ==
    /\ \A id \in BookingIds, db_ok \in BOOLEAN :
           IdentifiesNoRow(id, bookings)
               => cancel_booking(bookings, sqlite_seq, id, db_ok)
                      = Effect(Return(FALSE), bookings, sqlite_seq)
    /\ (result.op = "cancel_booking" /\ IdentifiesNoRow(result.booking_id, result.before))
           => (result.exc = "none" /\ result.ret = FALSE /\ bookings = result.before)

\* the id of a Booking that was cancelled before is cancelled again, while
\* another Booking is persisted
C8_Witness ==
    /\ result.op = "cancel_booking"
    /\ result.booking_id.type = "int"
    /\ result.booking_id.val \in issued
    /\ IdentifiesNoRow(result.booking_id, result.before)
    /\ result.ret = FALSE
    /\ bookings # {}

\* C9: when book_slot(d, t, dur, c, s) has returned id and cancel_booking(id)
\* follows, cancel_booking returns true, the table equals the table before
\* the book_slot call, and is_slot_available(d, t, dur) is true again
C9_BookCancelRoundTrip ==
    [][(/\ BookSucceeded
        /\ result'.op = "cancel_booking"
        /\ result'.booking_id = PyInt(result.ret))
           => (/\ result'.exc = "none"
               /\ result'.ret = TRUE
               /\ bookings' = result.before
               /\ \A r \in bookings :
                      r.booking_id = result.ret
                          => is_slot_available(bookings', r.date, r.start_time,
                                               PyInt(r.duration_minutes), TRUE).ret
                                 = TRUE)]_vars

\* the Booking made last has been cancelled and an earlier one is persisted
C9_Witness ==
    /\ result.op = "cancel_booking"
    /\ result.ret = TRUE
    /\ result.booking_id = PyInt(sqlite_seq)
    /\ Cardinality(result.before) = 2
    /\ Cardinality(bookings) = 1

\* C10: the ids of the persisted Bookings are pairwise different, and each
\* id book_slot returns is greater than every id it returned before, also
\* those of Bookings cancelled since
C10_IdsUniqueIncreasing ==
    /\ [](\A a, b \in bookings : a.booking_id = b.booking_id => a = b)
    /\ [][(result'.op = "book_slot" /\ result'.exc = "none")
              => \A id \in issued : result'.ret > id]_vars

\* a Booking is made after the only earlier one was cancelled
C10_Witness ==
    /\ BookSucceeded
    /\ result.before = {}
    /\ issued = {1, 2}
    /\ result.ret = 2

----------------------------------------------------------------------------
(* C11..C14: the searches *)

\* a search request is ((date, time), duration)
SearchDefined(a) ==
    PositiveMultipleOf15(a[2]) /\ DateParses(a[1][1]) /\ TimeParses(a[1][2])

\* the instant a (date, time) pair of strs names
InstantOf(p) == CombineDatetime(ParseDate(p[1]), ParseTime(p[2]))

\* an instant on a 15-minute boundary, with a time of day in [09:00, 17:00),
\* at which is_slot_available is true
IsCandidate(rows, c, duration) ==
    /\ c % 15 = 0
    /\ 9 * 60 <= TimeOf(c) /\ TimeOf(c) < 17 * 60
    /\ is_slot_available(rows, FormatDate(DateOf(c)), FormatTime(TimeOf(c)),
                         duration, TRUE).ret

SearchResult == result.op = "next_available_slot" /\ result.exc = "none"

\* C11: next_available_slot((after_date, after_time), duration) returns the
\* earliest instant at or after after_date@after_time that is on a 15-minute
\* boundary, has a time of day in [09:00, 17:00) and is available for the
\* duration; on an empty calendar 10:05 gives 10:15 and 08:00 gives 09:00 of
\* the same day, 17:00 gives 09:00 of the next day
C11_EarliestCandidate ==
    /\ \A a \in SearchArgs :
           SearchDefined(a)
               => LET out == next_available_slot(bookings, a[1], a[2], TRUE)
                  IN  /\ out.exc = "none"
                      /\ Len(out.ret) = 2
                      /\ out.ret = <<FormatDate(ParseDate(out.ret[1])),
                                     FormatTime(ParseTime(out.ret[2]))>>
                      /\ InstantOf(out.ret) >= InstantOf(a[1])
                      /\ IsCandidate(bookings, InstantOf(out.ret), a[2])
                      /\ \A c \in InstantOf(a[1])..(InstantOf(out.ret) - 1) :
                             ~ IsCandidate(bookings, c, a[2])
    /\ bookings = {}
           => /\ next_available_slot(bookings, <<Date0401, Time1005>>, PyInt(30),
                                      TRUE).ret = <<Date0401, FormatTime(615)>>
              /\ next_available_slot(bookings, <<Date0401, Time0800>>, PyInt(60),
                                      TRUE).ret = <<Date0401, Time0900>>
              /\ next_available_slot(bookings, <<Date0401, Time1700>>, PyInt(30),
                                      TRUE).ret = <<Date0402, Time0900>>

\* a search found 10:30: the candidates before it were taken by a Booking
C11_Witness ==
    /\ SearchResult
    /\ result.before # {}
    /\ result.ret = <<Date0401, FormatTime(630)>>

\* C12 as stated: next_available_slot never returns a start time whose
\* requested duration would extend the interval past 17:00 of that day
C12_EndWithinBusinessHours ==
    \A a \in SearchArgs :
        SearchDefined(a)
            => LET out == next_available_slot(bookings, a[1], a[2], TRUE)
               IN  Len(out.ret) = 2 => ParseTime(out.ret[2]) + a[2].val <= 17 * 60

\* C12, amended: next_available_slot never returns a start time outside
\* [09:00, 17:00), and a search that starts at 17:00 or later returns a time
\* of a later day; the interval returned may end after 17:00
C12_StartWithinBusinessHours ==
    /\ \A a \in SearchArgs :
           SearchDefined(a)
               => LET out == next_available_slot(bookings, a[1], a[2], TRUE)
                  IN  Len(out.ret) = 2
                          => /\ 9 * 60 <= ParseTime(out.ret[2])
                             /\ ParseTime(out.ret[2]) < 17 * 60
                             /\ ParseTime(a[1][2]) >= 17 * 60
                                    => ParseDate(out.ret[1]) > ParseDate(a[1][1])
    /\ (SearchResult /\ Len(result.ret) = 2)
           => (9 * 60 <= ParseTime(result.ret[2]) /\ ParseTime(result.ret[2]) < 17 * 60)

\* a search has returned 09:00 of the next day, the table holding Bookings
C12_Witness ==
    /\ SearchResult
    /\ result.before # {}
    /\ result.ret = <<Date0402, Time0900>>

\* the 16 candidate starts 09:00, 09:30, ..., 16:30, as times of day
DayCandidates == {9 * 60 + 30 * k : k \in 0..15}

DayDefined(a) == PositiveMultipleOf15(a[2]) /\ DateParses(a[1])

\* C14: slots_available_on_day(date, duration) returns, in ascending order
\* and without duplicates, exactly those of 09:00, 09:30, ..., 16:30 for which
\* is_slot_available(date, T, duration) is true, also when T + duration is
\* past 17:00: all 16 on a day without Bookings, and neither 10:00 nor 10:30
\* for a duration of 30 on a day with a Booking 10:00-11:00
C14_DaySlotsExact ==
    \A a \in DayArgs :
        DayDefined(a)
            => LET out == slots_available_on_day(bookings, a[1], a[2], TRUE)
                   slots == out.ret
               IN  /\ out.exc = "none"
                   /\ \A i, j \in 1..Len(slots) :
                          i < j => ParseTime(slots[i]) < ParseTime(slots[j])
                   /\ \A i \in 1..Len(slots) :
                          slots[i] = FormatTime(ParseTime(slots[i]))
                   /\ {ParseTime(slots[i]) : i \in 1..Len(slots)}
                          = {t \in DayCandidates :
                                is_slot_available(bookings, a[1], FormatTime(t),
                                                  a[2], TRUE).ret}
                   /\ (~ \E b \in bookings : SameDay(b.date, a[1]))
                          => Len(slots) = 16
                   /\ (/\ a[2] = PyInt(30)
                       /\ \E b \in bookings :
                              /\ SameDay(b.date, a[1])
                              /\ b.start_time = Time1000
                              /\ b.duration_minutes = 60)
                          => \A i \in 1..Len(slots) :
                                 slots[i] \notin {Time1000, FormatTime(630)}

\* the day was enumerated for a duration of 30 with a Booking 10:00-11:00:
\* 14 of the 16 starts are returned, 16:30 among them
C14_Witness ==
    /\ result.op = "slots_available_on_day"
    /\ result.exc = "none"
    /\ \E b \in result.before :
           b.date = Date0401 /\ b.start_time = Time1000 /\ b.duration_minutes = 60
    /\ Len(result.ret) = 14
    /\ result.ret[14] = FormatTime(990)

----------------------------------------------------------------------------
(* C15..C16: storage errors *)

\* C15: is_slot_available with a valid duration returns false, and raises
\* nothing, when the date or the time does not parse or the storage raises an
\* error; no call during which the storage raised has returned true
C15_FailClosed ==
    /\ \A a \in SlotArgs, db_ok \in BOOLEAN :
           (/\ PositiveMultipleOf15(a[3])
            /\ (~ DateParses(a[1]) \/ ~ TimeParses(a[2]) \/ ~ db_ok))
               => is_slot_available(bookings, a[1], a[2], a[3], db_ok)
                      = Return(FALSE)
    /\ (result.op = "is_slot_available" /\ storage = <<FALSE>>)
           => (result.exc = "InvalidDuration"
                  \/ (result.exc = "none" /\ result.ret = FALSE))

\* the storage raised during an is_slot_available on an empty table, where
\* every slot is free: the answer is false
C15_Witness ==
    /\ result.op = "is_slot_available"
    /\ storage = <<FALSE>>
    /\ result.exc = "none"
    /\ result.ret = FALSE
    /\ result.before = {}

\* a call that gets as far as the storage
ReachesStorage(booking_id) == booking_id.type = "int" /\ booking_id.val > 0

\* C16: a storage error during book_slot (in its availability check or in
\* its INSERT) or during cancel_booking reaches the caller as a storage
\* error, not as "slot not available" and not as false
C16_StorageErrorSurfaced ==
    /\ [][\A a \in BookArgs, check_ok \in BOOLEAN, insert_ok \in BOOLEAN :
             (/\ RequestDefined(a) /\ FieldsFit(a)
              /\ \/ ~ check_ok
                 \/ /\ is_slot_available(bookings, a[1], a[2], a[3], TRUE).ret
                    /\ ~ insert_ok
              /\ result'.op = "book_slot"
              /\ BookSlotCall(a[1], a[2], a[3], a[4], a[5], check_ok, insert_ok))
                 => result'.exc = "sqlite3.Error"]_vars
    /\ []((/\ result.op = "cancel_booking"
           /\ ReachesStorage(result.booking_id)
           /\ storage = <<FALSE>>)
              => result.exc = "sqlite3.Error")

----------------------------------------------------------------------------
(* C17..C18: concurrent callers *)

\* C17: an INSERT whose (date, start_time) equals that of a persisted Booking
\* is rejected by the store: of two concurrent book_slot calls for the same
\* (date, start_time) that have both passed the availability check, the one
\* that inserts second fails and persists nothing
C17_DuplicateInsertRejected ==
    [][\A c \in Callers :
          (/\ pending[c].pc = "insert"
           /\ \E b \in bookings :
                  b.date = pending[c].date /\ b.start_time = pending[c].start_time
           /\ pending'[c] = Idle)
              => (bookings' = bookings /\ result'.exc # "none")]_vars

\* C18: between the availability check of a book_slot call and its INSERT no
\* other caller's insert takes effect
C18_CheckThenInsertAtomic ==
    [][\A c \in Callers :
          (pending[c].pc = "insert" /\ pending'[c].pc = "insert")
              => bookings' = bookings]_vars

----------------------------------------------------------------------------
(* C19..C20: the tool adapter *)

ToolOps ==
    {"next_available_slot_tool", "is_slot_available_tool", "book_slot_tool",
     "release_slot_tool"}

\* a dict with a boolean success and, when success is false, an error message
Structured(r) ==
    /\ "success" \in DOMAIN r
    /\ r.success \in BOOLEAN
    /\ ~ r.success => ("error" \in DOMAIN r /\ r.error \in STRING /\ r.error # "")

\* C19: every call of a tool and of execute_calendar_tool returns, whatever
\* it is given and whatever the engine and the storage do: no exception leaves
\* the adapter, and what is returned has a boolean success and an error
\* message whenever success is false
C19_StructuredResult ==
    /\ result.op \in ToolOps => (result.exc = "none" /\ Structured(result.ret))
    /\ result.op = "execute_calendar_tool"
           => (result.exc = "none" /\ Structured(result.ret.json))

\* book_slot_tool has answered a call whose INSERT met a storage error
C19_Witness ==
    /\ result.op = "book_slot_tool"
    /\ result.called = <<"book_slot">>
    /\ storage = <<TRUE, FALSE>>
    /\ result.exc = "none"
    /\ result.ret = Failure(UnexpectedError)

\* the fields a tool requires
Required(op) ==
    CASE op = "next_available_slot_tool" -> {"after_date", "after_time", "duration"}
      [] op = "is_slot_available_tool" -> SlotFields
      [] op = "book_slot_tool" -> BookFields
      [] op = "release_slot_tool" -> ReleaseFields

\* C20: a tool answers with the missing-parameter error exactly when a field
\* it requires is absent from the field map, and then it has called no engine
\* operation and the table is as it was
C20_MissingIffAbsent ==
    result.op \in ToolOps =>
        /\ (result.ret = Failure(MissingParameters))
               <=> (Required(result.op) \ DOMAIN result.args.val # {})
        /\ (result.ret = Failure(MissingParameters))
               => (result.called = <<>> /\ bookings = result.before)

----------------------------------------------------------------------------
(* C21..C24: the answers of the tools *)

DurationTools ==
    {"next_available_slot_tool", "is_slot_available_tool", "book_slot_tool"}

\* the fields op requires are all in the field map of the call
AllPresent(op, args) == Required(op) \subseteq DOMAIN args.val

\* C21: a call of a tool that takes a duration, with every required field
\* present and a duration that is an int but no positive multiple of 15, is
\* answered with success false and the invalid-duration error, and the table
\* is as it was
C21_InvalidDurationAnswer ==
    (/\ result.op \in DurationTools
     /\ AllPresent(result.op, result.args)
     /\ result.args.val.duration.type = "int"
     /\ ~ ValidDuration(result.args.val.duration))
        => (/\ result.exc = "none"
            /\ result.ret = Failure("InvalidDuration")
            /\ bookings = result.before)

\* the call asked for a slot with a date and a time that parse, str fields
\* of valid lengths and a valid int duration, and the storage answered
WellFormedBooking(r) ==
    /\ r.op = "book_slot_tool"
    /\ AllPresent(r.op, r.args)
    /\ \A k \in BookFields \ {"duration"} :
           r.args.val[k].type = "str" /\ Len(r.args.val[k].val) > 0
    /\ DateParses(r.args.val.date.val) /\ TimeParses(r.args.val.time.val)
    /\ Len(r.args.val.client_id.val) <= MaxClientIdLen
    /\ Len(r.args.val.service_name.val) <= MaxServiceNameLen
    /\ r.args.val.duration.type = "int"
    /\ ValidDuration(r.args.val.duration)
    /\ storage = <<TRUE, TRUE>>

SlotWasAvailable(r) ==
    is_slot_available(r.before, r.args.val.date.val, r.args.val.time.val,
                      r.args.val.duration, TRUE).ret

\* C22: book_slot_tool answers success true with a truthy booked for a slot
\* that is available, and success true with booked false for a slot that is
\* not
C22_BookedIsPayload ==
    WellFormedBooking(result) =>
        /\ result.exc = "none"
        /\ "booked" \in DOMAIN result.ret
        /\ result.ret.success = TRUE
        /\ IF SlotWasAvailable(result)
           THEN result.ret.booked \in 1..(MaxBookings + 1)
           ELSE result.ret.booked = FALSE

\* the rows at (date, time) of a release_slot_tool call
RowsAt(rows, args) ==
    {b \in rows : b.date = args.val.date.val /\ b.start_time = args.val.time.val}

\* C23: release_slot_tool with the date and the start time of a Booking
\* answers success true with released true and removes the Booking; with a
\* date and a time that have no Booking it answers released false
C23_ReleaseRemovesBooking ==
    (/\ result.op = "release_slot_tool"
     /\ AllPresent(result.op, result.args)
     /\ \A k \in ReleaseFields :
            result.args.val[k].type = "str" /\ Len(result.args.val[k].val) > 0)
        => (/\ result.exc = "none"
            /\ "released" \in DOMAIN result.ret
            /\ result.ret.success = TRUE
            /\ result.ret.released = (RowsAt(result.before, result.args) # {})
            /\ bookings = result.before \ RowsAt(result.before, result.args))

\* C24: execute_calendar_tool, given the name of a registered tool and a text
\* that is JSON, returns the JSON text of what that tool returns for the
\* arguments, with the tool's effect on the table; given a text that is no
\* JSON it answers success false with the invalid-JSON error, and given JSON
\* and a name that is not registered, success false with the unknown-tool
\* error, in both cases calling no engine operation and leaving the table
C24_ExecuteDispatches ==
    [][result'.op = "execute_calendar_tool" =>
          LET tool_name == result'.args[1]
              args_json == result'.args[2]
          IN  /\ result'.exc = "none"
              /\ IF ~ args_json.parses
                 THEN /\ result'.ret = Dumps(Failure(InvalidJson))
                      /\ result'.called = <<>>
                      /\ bookings' = bookings /\ sqlite_seq' = sqlite_seq
                 ELSE IF tool_name \notin CALENDAR_TOOLS
                 THEN /\ result'.ret = Dumps(Failure(UnknownTool))
                      /\ result'.called = <<>>
                      /\ bookings' = bookings /\ sqlite_seq' = sqlite_seq
                 ELSE \E e \in {ToolFunc(tool_name, bookings, sqlite_seq,
                                         args_json.val, storage'[1], storage'[2])} :
                          /\ e.exc = "none"
                          /\ result'.ret = Dumps(e.ret)
                          /\ result'.called = e.called
                          /\ bookings' = e.rows /\ sqlite_seq' = e.seq]_vars

\* execute_calendar_tool has returned the answer of book_slot_tool to a
\* booking that was made
C24_Witness ==
    /\ result.op = "execute_calendar_tool"
    /\ result.args[1] = "book_slot"
    /\ result.called = <<"book_slot">>
    /\ result.ret.json.success
    /\ bookings # result.before

----------------------------------------------------------------------------
(* C25: the search that steps and the search that jumps *)

EndsAligned(rows) ==
    \A b \in rows : ParseTime(b.end_time) % Granularity = 0

\* no candidate of the search, the last of a day being at 16:45, has an
\* interval that reaches midnight
WithinDay(duration) == DayEnd - Granularity + duration.val < MinutesPerDay

----------------------------------------------------------------------------
(* C26..C29: the rows of the table *)

\* C26: the end_time of every persisted Booking is the time of day of its
\* start_time plus its duration_minutes (past midnight, the time of the next
\* day), and a Booking that stays in the table keeps all its fields
C26_EndTimeDerived ==
    /\ [](\A b \in bookings :
             /\ b.end_time = FormatTime(ParseTime(b.end_time))
             /\ ParseTime(b.end_time)
                    = (ParseTime(b.start_time) + b.duration_minutes)
                          % MinutesPerDay)
    /\ [][\A b \in bookings :
             \A c \in bookings' : c.booking_id = b.booking_id => c = b]_vars

\* two Bookings persisted, one of them written "9:00" or passing midnight
C26_Witness ==
    /\ Cardinality(bookings) = 2
    /\ \E b \in bookings :
           \/ b.start_time = Time9_00
           \/ ParseTime(b.start_time) + b.duration_minutes > MinutesPerDay

\* C27: the interval of every persisted Booking lies within its date: its
\* end_time is later in the day than its start_time
C27_NoMidnightSpan ==
    \A b \in bookings : ParseTime(b.end_time) > ParseTime(b.start_time)

Queries == {"is_slot_available", "slots_available_on_day", "next_available_slot"}

\* C28: a call of is_slot_available, slots_available_on_day or
\* next_available_slot, whether it returns or raises, leaves the rows of the
\* table and the id counter as they were, so that every query asked again
\* has the answer it had
C28_QueriesChangeNothing ==
    [][result'.op \in Queries =>
          /\ bookings' = bookings
          /\ sqlite_seq' = sqlite_seq
          /\ result'.before = bookings
          /\ \A a \in SlotArgs :
                 is_slot_available(bookings', a[1], a[2], a[3], TRUE)
                     = is_slot_available(bookings, a[1], a[2], a[3], TRUE)]_vars

\* is_slot_available has raised on a table that holds a Booking, and
\* next_available_slot has answered on one
C28_Witness ==
    /\ bookings # {}
    /\ bookings = result.before
    /\ \/ result.op = "is_slot_available" /\ result.exc = "InvalidDuration"
       \/ result.op = "next_available_slot" /\ result.exc = "none"

\* C29: a cancel_booking that returns True has removed the one Booking with
\* the id it was given and no other; a book_slot that returns has added one
\* Booking and removed or changed none; and no step but a cancel_booking that
\* returns True takes a Booking from the table
C29_OnlyCancelRemoves ==
    [][/\ (result'.op = "cancel_booking" /\ result'.ret = TRUE)
           => /\ bookings' \subseteq bookings
              /\ Cardinality(bookings \ bookings') = 1
              /\ \A b \in bookings \ bookings' :
                     b.booking_id = result'.booking_id.val
       /\ (result'.op = "book_slot" /\ result'.exc = "none")
           => /\ bookings \subseteq bookings'
              /\ Cardinality(bookings' \ bookings) = 1
       /\ (bookings \ bookings' # {})
           => (result'.op = "cancel_booking" /\ result'.ret = TRUE)]_vars

\* cancel_booking has removed one of two Bookings
C29_Witness ==
    /\ result.op = "cancel_booking"
    /\ result.ret = TRUE
    /\ Cardinality(result.before) = 2
    /\ Cardinality(bookings) = 1
    /\ bookings \subseteq result.before

----------------------------------------------------------------------------
(* C30: the cancel_booking tool of the MCP server *)

\* the last step was a cancel_booking tool call answered with the text
\* "Booking ... has been cancelled successfully."
SaidCancelled ==
    /\ OpOf(result) = "calendar_tool"
    /\ ArgsOf(result)[1] = "cancel_booking"
    /\ result.exc = "none"
    /\ result.ret[1].text = CancelledSuccessfully

\* C30: when the cancel_booking tool has answered that the booking has been
\* cancelled successfully, the call removed a Booking from the table, the
\* one with the booking_id it was given
C30_CancelledMeansRemoved ==
    SaidCancelled =>
        /\ bookings \subseteq result.before
        /\ \E b \in result.before \ bookings :
               b.booking_id = result.args[2].booking_id.val

====
